---------------------------- MODULE Spec2Model ----------------------------
(***************************************************************************)
(* Model of src/strategies/hat_helpers.rs of hanabi.rs: the residue        *)
(* algebra (ModulusInformation) and the hat-sum protocol built on it       *)
(* (the default methods of the PublicInformation trait).                   *)
(*                                                                         *)
(* Numbers are Rust u32 values.  A u32 x is represented by the integer x   *)
(* when x < 2^31 and by x - 2^32 otherwise (its two's complement reading), *)
(* so that every u32 is an integer the model checker can hold.  Arithmetic *)
(* wraps modulo 2^32; the variable overflow_checks says whether the build  *)
(* panics on overflow (the debug profile) or wraps (the release profile).  *)
(* A panic is recorded as a value of the field "fail" naming the source    *)
(* line that panicked.                                                     *)
(***************************************************************************)
EXTENDS Integers, Sequences, FiniteSets

VARIABLES
    overflow_checks,  \* build profile: TRUE = arithmetic overflow panics
    mode,             \* which part of the program this behaviour exercises;
                      \* "stray" once the agents of a game are out of step
    reg,              \* algebra: the two ModulusInformation values in scope
    trail,            \* history: the most recent calls, the latest last
    ncalls,           \* how many calls have been made
    strategy,         \* protocol: which ask_questions implementation is in use
    board,            \* protocol: BoardState (whose turn it is, which turn)
    phase,            \* protocol: the acting player decides, or the others update
    hands,            \* protocol: the actual hand of every player
    pub,              \* protocol: every agent's PublicInformation snapshot
    msgs,             \* protocol: what the calls of this turn reveal by the move
    seen,             \* protocol: how many of msgs each agent has processed
    aborted           \* a panic has unwound the program

vars == << overflow_checks, mode, reg, trail, ncalls, strategy, board, phase, hands, pub, msgs, seen, aborted >>

----------------------------------------------------------------------------
(* u32 arithmetic *)

U32SignedMax == 2147483647
U32SignedMin == -U32SignedMax - 1
Limb == 65536
HalfLimb == 256

\* unsigned comparison
ULt(a, b) == IF (a < 0) = (b < 0) THEN a < b ELSE b < 0
ULe(a, b) == a = b \/ ULt(a, b)
UMin(a, b) == IF ULe(a, b) THEN a ELSE b

\* a + b modulo 2^32
WrapAdd(a, b) ==
    IF a >= 0 /\ b >= 0 /\ a > U32SignedMax - b
    THEN ((a - U32SignedMax) - 1) + ((b - U32SignedMax) - 1)
    ELSE IF a < 0 /\ b < 0 /\ a < U32SignedMin - b
    THEN ((a + U32SignedMax) + 1) + ((b + U32SignedMax) + 1)
    ELSE a + b
AddOverflows(a, b) == ULt(WrapAdd(a, b), a)

WrapNeg(b) == IF b = U32SignedMin THEN b ELSE -b
\* a - b modulo 2^32
WrapSub(a, b) == WrapAdd(a, WrapNeg(b))
SubOverflows(a, b) == ULt(a, b)

Lo16(a) == a % Limb
Hi16(a) == (a \div Limb) % Limb
\* (x * y) modulo 2^16 for 16-bit x, y
MulMod16(x, y) == ((x * (y % HalfLimb)) + ((x * (y \div HalfLimb)) % HalfLimb) * HalfLimb) % Limb
FromLimbs(hi, lo) == IF hi >= Limb \div 2 THEN (hi - Limb) * Limb + lo ELSE hi * Limb + lo
\* a * b modulo 2^32
WrapMul(a, b) ==
    LET al == Lo16(a)
        bl == Lo16(b)
        t1 == al * (bl \div HalfLimb)
        t0 == al * (bl % HalfLimb)
        u  == (t1 % HalfLimb) * HalfLimb + t0
        lo == u % Limb
        hi == ((t1 \div HalfLimb) + (u \div Limb) + MulMod16(Hi16(a), bl) + MulMod16(al, Hi16(b))) % Limb
    IN  FromLimbs(hi, lo)

\* floor(a / d) on unsigned values, d # 0
UDiv(a, d) ==
    IF d < 0 THEN (IF ULe(d, a) THEN 1 ELSE 0)
    ELSE IF a >= 0 THEN a \div d
    ELSE LET half == ((a \div 2) + U32SignedMax) + 1
             bit  == a % 2
             q1   == half \div d
             r1   == half % d
             e    == IF r1 >= (d - r1) - bit THEN 1 ELSE 0
         IN  WrapAdd(WrapAdd(q1, q1), e)
URem(a, d) == WrapSub(a, WrapMul(UDiv(a, d), d))
MulOverflows(a, b) == a # 0 /\ ULt(UDiv(-1, a), b)

\* an arithmetic overflow panics only in a build with overflow checks
Panics(overflowed) == overflow_checks /\ overflowed

----------------------------------------------------------------------------
(* impl ModulusInformation *)

Residue(m, v) == [modulus |-> m, value |-> v]

\* pub fn new(modulus, value) -> Self
new(modulus, value) ==
    IF ULt(value, modulus)
    THEN [fail |-> "ok", ret |-> Residue(modulus, value)]
    ELSE [fail |-> "assert:11", ret |-> Residue(modulus, value)]

\* pub fn none() -> Self
none == new(1, 0).ret

\* info_remaining with the "- 1" of line 37 left out (and the assertions with it)
info_remaining_off_by_one(self, max_modulus) ==
    IF Panics(SubOverflows(max_modulus, self.value)) THEN [fail |-> "overflow:37", ret |-> 0]
    ELSE IF self.modulus = 0 THEN [fail |-> "div0:37", ret |-> 0]
    ELSE [fail |-> "ok", ret |-> WrapAdd(UDiv(WrapSub(max_modulus, self.value), self.modulus), 1)]

\* info_remaining that reports the whole ceiling whatever has been combined
info_remaining_whole_ceiling(self, max_modulus) ==
    [fail |-> "ok", ret |-> max_modulus]

\* pub fn info_remaining(&self, max_modulus) -> u32
info_remaining(self, max_modulus) ==
    LET d1     == WrapSub(max_modulus, self.value)
        d2     == WrapSub(d1, 1)
        ovf37a == SubOverflows(max_modulus, self.value) \/ SubOverflows(d1, 1)
        q      == UDiv(d2, self.modulus)
        result == WrapAdd(q, 1)
        ovf37b == AddOverflows(q, 1)
        r1     == WrapSub(result, 1)
        p38    == WrapMul(self.modulus, r1)
        lhs38  == WrapAdd(self.value, p38)
        ovf38  == SubOverflows(result, 1) \/ MulOverflows(self.modulus, r1)
                      \/ AddOverflows(self.value, p38)
        r2     == WrapSub(WrapAdd(result, 1), 1)
        p39    == WrapMul(self.modulus, r2)
        lhs39  == WrapAdd(self.value, p39)
        ovf39  == AddOverflows(result, 1) \/ MulOverflows(self.modulus, r2)
                      \/ AddOverflows(self.value, p39)
        Fail(why) == [fail |-> why, ret |-> 0]
    IN  IF Panics(ovf37a) THEN Fail("overflow:37")
        ELSE IF self.modulus = 0 THEN Fail("div0:37")
        ELSE IF Panics(ovf37b) THEN Fail("overflow:37")
        ELSE IF Panics(ovf38) THEN Fail("overflow:38")
        ELSE IF ~ULt(lhs38, max_modulus) THEN Fail("assert:38")
        ELSE IF Panics(ovf39) THEN Fail("overflow:39")
        ELSE IF ~ULe(max_modulus, lhs39) THEN Fail("assert:39")
        ELSE [fail |-> "ok", ret |-> result]

\* combine without the assertion of line 23
combine_no_precondition(self, other, max_modulus) ==
    LET p24    == WrapMul(self.modulus, other.value)
        value  == WrapAdd(self.value, p24)
        ovf24  == MulOverflows(self.modulus, other.value) \/ AddOverflows(self.value, p24)
        p25    == WrapMul(self.modulus, other.modulus)
        ovf25  == MulOverflows(self.modulus, other.modulus)
        after  == Residue(UMin(max_modulus, p25), value)
    IN  IF Panics(ovf24) THEN [fail |-> "overflow:24", self |-> self]
        ELSE IF Panics(ovf25) THEN [fail |-> "overflow:25", self |-> Residue(self.modulus, value)]
        ELSE IF ~ULt(after.value, after.modulus) THEN [fail |-> "assert:26", self |-> after]
        ELSE [fail |-> "ok", self |-> after]

\* pub fn combine(&mut self, other, max_modulus)
combine(self, other, max_modulus) ==
    LET ir     == info_remaining(self, max_modulus)
        p24    == WrapMul(self.modulus, other.value)
        value  == WrapAdd(self.value, p24)
        ovf24  == MulOverflows(self.modulus, other.value) \/ AddOverflows(self.value, p24)
        p25    == WrapMul(self.modulus, other.modulus)
        ovf25  == MulOverflows(self.modulus, other.modulus)
        after  == Residue(UMin(max_modulus, p25), value)
    IN  IF ir.fail # "ok" THEN [fail |-> ir.fail, self |-> self]
        ELSE IF ~ULe(other.modulus, ir.ret) THEN [fail |-> "assert:23", self |-> self]
        ELSE IF Panics(ovf24) THEN [fail |-> "overflow:24", self |-> self]
        ELSE IF Panics(ovf25) THEN [fail |-> "overflow:25", self |-> Residue(self.modulus, value)]
        ELSE IF ~ULt(after.value, after.modulus) THEN [fail |-> "assert:26", self |-> after]
        ELSE [fail |-> "ok", self |-> after]

\* split with the remainder's modulus computed without the extracted value:
\* (original_modulus - 1) / modulus + 1
split_loose_modulus(self, modulus) ==
    IF ~ULe(modulus, self.modulus)
    THEN [fail |-> "assert:44", self |-> self, ret |-> Residue(modulus, 0)]
    ELSE IF modulus = 0
    THEN [fail |-> "div0:47", self |-> self, ret |-> Residue(modulus, 0)]
    ELSE [fail |-> "ok",
          self |-> Residue(WrapAdd(UDiv(WrapSub(self.modulus, 1), modulus), 1),
                           UDiv(self.value, modulus)),
          ret |-> Residue(modulus, URem(self.value, modulus))]

\* split that leaves the remainder under the modulus it had (line 52 left out)
split_keeps_modulus(self, modulus) ==
    IF ~ULe(modulus, self.modulus)
    THEN [fail |-> "assert:44", self |-> self, ret |-> Residue(modulus, 0)]
    ELSE IF modulus = 0
    THEN [fail |-> "div0:47", self |-> self, ret |-> Residue(modulus, 0)]
    ELSE [fail |-> "ok",
          self |-> Residue(self.modulus, UDiv(self.value, modulus)),
          ret |-> Residue(modulus, URem(self.value, modulus))]

\* split with the remainder's modulus rounded down: original_modulus / modulus
split_floor_modulus(self, modulus) ==
    IF ~ULe(modulus, self.modulus)
    THEN [fail |-> "assert:44", self |-> self, ret |-> Residue(modulus, 0)]
    ELSE IF modulus = 0
    THEN [fail |-> "div0:47", self |-> self, ret |-> Residue(modulus, 0)]
    ELSE [fail |-> "ok",
          self |-> Residue(UDiv(self.modulus, modulus), UDiv(self.value, modulus)),
          ret |-> Residue(modulus, URem(self.value, modulus))]

\* pub fn split(&mut self, modulus) -> Self
split(self, modulus) ==
    LET value  == URem(self.value, modulus)
        quot   == UDiv(self.value, modulus)
        d1     == WrapSub(self.modulus, value)
        d2     == WrapSub(d1, 1)
        ovf52a == SubOverflows(self.modulus, value) \/ SubOverflows(d1, 1)
        q      == UDiv(d2, modulus)
        ovf52b == AddOverflows(q, 1)
        after  == Residue(WrapAdd(q, 1), quot)
        p53    == WrapMul(modulus, after.value)
        ovf53  == MulOverflows(modulus, after.value) \/ AddOverflows(value, p53)
        made   == new(modulus, value)
        Fail(why, s) == [fail |-> why, self |-> s, ret |-> Residue(modulus, 0)]
    IN  IF ~ULe(modulus, self.modulus) THEN Fail("assert:44", self)
        ELSE IF modulus = 0 THEN Fail("div0:47", self)
        ELSE IF Panics(ovf52a \/ ovf52b) THEN Fail("overflow:52", Residue(self.modulus, quot))
        ELSE IF Panics(ovf53) THEN Fail("overflow:53", after)
        ELSE IF self.value # WrapAdd(value, p53) THEN Fail("assert:53", after)
        ELSE IF made.fail # "ok" THEN Fail(made.fail, after)
        ELSE [fail |-> "ok", self |-> after, ret |-> made.ret]

\* cast_up without the assertion of line 58
cast_up_unchecked(self, modulus) ==
    [fail |-> "ok", self |-> Residue(modulus, self.value)]

\* pub fn cast_up(&mut self, modulus)
cast_up(self, modulus) ==
    IF ULe(self.modulus, modulus)
    THEN [fail |-> "ok", self |-> Residue(modulus, self.value)]
    ELSE [fail |-> "assert:58", self |-> self]

\* pub fn add(&mut self, other: &Self)
add(self, other) ==
    LET s70   == WrapAdd(self.value, other.value)
        ovf70 == AddOverflows(self.value, other.value)
    IN  IF self.modulus # other.modulus THEN [fail |-> "assert:69", self |-> self]
        ELSE IF Panics(ovf70) THEN [fail |-> "overflow:70", self |-> self]
        ELSE IF self.modulus = 0 THEN [fail |-> "div0:70", self |-> self]
        ELSE [fail |-> "ok", self |-> Residue(self.modulus, URem(s70, self.modulus))]

\* subtract without adding the modulus first: (self.value - other.value) % self.modulus
subtract_no_offset(self, other) ==
    IF self.modulus # other.modulus THEN [fail |-> "assert:74", self |-> self]
    ELSE IF Panics(SubOverflows(self.value, other.value)) THEN [fail |-> "overflow:75", self |-> self]
    ELSE IF self.modulus = 0 THEN [fail |-> "div0:75", self |-> self]
    ELSE [fail |-> "ok",
          self |-> Residue(self.modulus, URem(WrapSub(self.value, other.value), self.modulus))]

\* pub fn subtract(&mut self, other: &Self)
subtract(self, other) ==
    LET s75   == WrapAdd(self.modulus, self.value)
        d75   == WrapSub(s75, other.value)
        ovf75 == AddOverflows(self.modulus, self.value) \/ SubOverflows(s75, other.value)
    IN  IF self.modulus # other.modulus THEN [fail |-> "assert:74", self |-> self]
        ELSE IF Panics(ovf75) THEN [fail |-> "overflow:75", self |-> self]
        ELSE IF self.modulus = 0 THEN [fail |-> "div0:75", self |-> self]
        ELSE [fail |-> "ok", self |-> Residue(self.modulus, URem(d75, self.modulus))]

----------------------------------------------------------------------------
(* trait Question, and the collaborators the protocol is generic over.     *)
(* A hand is a number; a belief state (HandInfo<CardPossibilityTable>) is  *)
(* the set of hands still held possible.  A question asks for the rank of  *)
(* the hand among the hands that were possible when it was asked, modulo   *)
(* its info_amount.                                                        *)

Question(k, poss) == [amount |-> k, poss |-> poss]
NoQuestion == [amount |-> 0, poss |-> {}]

Rank(h, poss) == Cardinality({ x \in poss : x < h })

\* fn info_amount(&self) -> u32
info_amount(q) == q.amount
\* fn answer(&self, &Cards, &BoardState) -> u32
answer(q, hand) == Rank(hand, q.poss) % q.amount
\* fn acknowledge_answer(&self, value, &mut HandInfo, &BoardState)
acknowledge_answer(q, value, hand_info) ==
    { h \in hand_info : Rank(h, q.poss) % q.amount = value }

\* fn answer_info(&self, hand, board) -> ModulusInformation
answer_info(q, hand) == new(info_amount(q), answer(q, hand))

\* fn acknowledge_answer_info(&self, answer, hand_info, board)
acknowledge_answer_info(q, ans, hand_info) ==
    IF info_amount(q) # ans.modulus
    THEN [fail |-> "assert:102", hand_info |-> hand_info]
    ELSE [fail |-> "ok", hand_info |-> acknowledge_answer(q, ans.value, hand_info)]

\* The question an ask_questions implementation emits next, or NoQuestion
\* when its loop ends.  self is the snapshot (unchanged during the round),
\* hand_info the belief state in progress, budget the remaining information
\* the callback last wrote back, asked the number of questions emitted so far.
NextQuestion(self, player, hand_info, budget, asked) ==
    LET open == Cardinality(hand_info) > 1
        size == Cardinality(hand_info)
    IN  CASE strategy = "greedy" ->
                \* as much as the budget allows, until the hand is known
                IF open /\ ULt(1, budget)
                THEN Question(UMin(budget, size), hand_info) ELSE NoQuestion
          [] strategy = "pairs" ->
                \* yes/no questions while the budget allows one
                IF open /\ ULe(2, budget) THEN Question(2, hand_info) ELSE NoQuestion
          [] strategy = "padded" ->
                \* yes/no questions between questions that carry no information
                IF asked = 0 THEN Question(1, hand_info)
                ELSE IF open /\ ULe(2, budget) THEN Question(2, hand_info)
                ELSE IF asked < 3 /\ ULe(1, budget) THEN Question(1, hand_info)
                ELSE NoQuestion
          [] strategy = "peers" ->
                \* reads the snapshot: yes/no questions, and none at all once
                \* the snapshot knows the hand of some other player
                IF open /\ ULe(2, budget)
                      /\ \A q \in DOMAIN self \ {player} : Cardinality(self[q]) # 1
                THEN Question(2, hand_info) ELSE NoQuestion
          [] strategy = "eager" ->
                \* ignores the budget: asks for the whole hand at once
                IF open /\ asked = 0 THEN Question(size, hand_info) ELSE NoQuestion
          [] OTHER -> NoQuestion

----------------------------------------------------------------------------
(* trait PublicInformation: the default methods *)

\* OwnedGameView of one agent: who it is, whose turn it is, the real hands
View(me, turn, cards) == [player |-> me, board |-> [player |-> turn], hands |-> cards]
get_hand(view, player) == view.hands[player]

RECURSIVE InSeatOrder(_)
InSeatOrder(ps) ==
    IF ps = {} THEN << >>
    ELSE LET lo == CHOOSE x \in ps : \A y \in ps : x <= y
         IN  << lo >> \o InSeatOrder(ps \ {lo})
\* view.get_other_players(): the players but the viewer, in seat order
get_other_players(view) == InSeatOrder(DOMAIN view.hands \ {view.player})

\* the one element of a singleton set: a value computed once and used often
The(S) == CHOOSE x \in S : TRUE

\* what a callback leaves: the belief state and the residue in progress, the
\* remaining budget written back, and the questions so far with their answers
Asked(st, question, value, hand_info, info, fail, budget) ==
    [hand_info |-> hand_info,
     info |-> info,
     info_remaining |-> IF fail = "ok" THEN budget ELSE st.info_remaining,
     asked |-> st.asked + 1,
     fail |-> fail,
     log |-> Append(st.log, [question |-> question, answer |-> value,
                             budget |-> IF fail = "ok" THEN budget ELSE st.info_remaining])]

\* EncodeCallback that writes back total_info / modulus as the budget
EncodeCallback_quotient_budget(st, question, total_info, hand) ==
    The({ The({ IF new_answer_info.fail # "ok"
                THEN Asked(st, question, new_answer_info.ret.value, st.hand_info, st.info,
                           new_answer_info.fail, 0)
                ELSE IF ack.fail # "ok"
                THEN Asked(st, question, new_answer_info.ret.value, ack.hand_info, st.info,
                           ack.fail, 0)
                ELSE The({ IF cmb.fail # "ok"
                           THEN Asked(st, question, new_answer_info.ret.value, ack.hand_info,
                                      cmb.self, cmb.fail, 0)
                           ELSE Asked(st, question, new_answer_info.ret.value,
                                      ack.hand_info, cmb.self, "ok",
                                      UDiv(total_info, cmb.self.modulus))
                           : cmb \in { combine(st.info, new_answer_info.ret, total_info) } })
                : ack \in { acknowledge_answer_info(question, new_answer_info.ret, st.hand_info) } })
          : new_answer_info \in { answer_info(question, hand) } })

\* the closure of get_hat_info_for_player (lines 146-151)
EncodeCallback(st, question, total_info, hand) ==
    The({ The({ IF new_answer_info.fail # "ok"
                THEN Asked(st, question, new_answer_info.ret.value, st.hand_info, st.info,
                           new_answer_info.fail, 0)
                ELSE IF ack.fail # "ok"
                THEN Asked(st, question, new_answer_info.ret.value, ack.hand_info, st.info,
                           ack.fail, 0)
                ELSE The({ IF cmb.fail # "ok"
                           THEN Asked(st, question, new_answer_info.ret.value, ack.hand_info,
                                      cmb.self, cmb.fail, 0)
                           ELSE The({ Asked(st, question, new_answer_info.ret.value,
                                            ack.hand_info, cmb.self, rem.fail, rem.ret)
                                      : rem \in { info_remaining(cmb.self, total_info) } })
                           : cmb \in { combine(st.info, new_answer_info.ret, total_info) } })
                : ack \in { acknowledge_answer_info(question, new_answer_info.ret, st.hand_info) } })
          : new_answer_info \in { answer_info(question, hand) } })

\* DecodeCallback that does not write the remaining budget back
DecodeCallback_stale_budget(st, question) ==
    The({ IF spl.fail # "ok"
          THEN Asked(st, question, spl.ret.value, st.hand_info, spl.self, spl.fail, 0)
          ELSE The({ Asked(st, question, spl.ret.value, ack.hand_info, spl.self, ack.fail,
                           st.info_remaining)
                     : ack \in { acknowledge_answer_info(question, spl.ret, st.hand_info) } })
          : spl \in { split(st.info, info_amount(question)) } })

\* the closure of update_from_hat_info_for_player (lines 167-171)
DecodeCallback(st, question) ==
    The({ IF spl.fail # "ok"
          THEN Asked(st, question, spl.ret.value, st.hand_info, spl.self, spl.fail, 0)
          ELSE The({ Asked(st, question, spl.ret.value, ack.hand_info, spl.self, ack.fail,
                           spl.self.modulus)
                     : ack \in { acknowledge_answer_info(question, spl.ret, st.hand_info) } })
          : spl \in { split(st.info, info_amount(question)) } })

\* fn ask_questions(&self, &Player, &mut HandInfo, callback, total_info):
\* emits questions to the callback until the implementation stops
RECURSIVE ask_questions(_, _, _, _, _, _)
ask_questions(self, player, st, encoding, total_info, hand) ==
    The({ The({ IF s.fail # "ok" \/ question = NoQuestion THEN s
                ELSE ask_questions(self, player,
                                   IF encoding THEN EncodeCallback(s, question, total_info, hand)
                                   ELSE DecodeCallback(s, question),
                                   encoding, total_info, hand)
                : question \in { NextQuestion(self, player, s.hand_info, s.info_remaining, s.asked) } })
          : s \in { st } })

\* what the callbacks start from: nothing asked yet, the whole budget left
StartOfRun(hand_info, info, total_info) ==
    [hand_info |-> hand_info, info |-> info, info_remaining |-> total_info,
     asked |-> 0, fail |-> "ok", log |-> << >>]

\* get_hat_info_for_player that returns the residue without the cast_up
get_hat_info_for_player_no_cast_up(self, player, hand_info, total_info, view) ==
    IF player = view.player
    THEN [fail |-> "assert:143", ret |-> none, hand_info |-> hand_info, log |-> << >>]
    ELSE The({ [fail |-> run.fail, ret |-> run.info, hand_info |-> run.hand_info, log |-> run.log]
               : run \in { ask_questions(self, player, StartOfRun(hand_info, none, total_info),
                                         TRUE, total_info, get_hand(view, player)) } })

\* fn get_hat_info_for_player(&self, player, hand_info, total_info, view)
get_hat_info_for_player(self, player, hand_info, total_info, view) ==
    IF player = view.player
    THEN [fail |-> "assert:143", ret |-> none, hand_info |-> hand_info, log |-> << >>]
    ELSE The({ LET cast == cast_up(run.info, total_info)
               IN  IF run.fail # "ok"
                   THEN [fail |-> run.fail, ret |-> run.info,
                         hand_info |-> run.hand_info, log |-> run.log]
                   ELSE [fail |-> cast.fail, ret |-> cast.self,
                         hand_info |-> run.hand_info, log |-> run.log]
               : run \in { ask_questions(self, player, StartOfRun(hand_info, none, total_info),
                                         TRUE, total_info, get_hand(view, player)) } })

\* fn update_from_hat_info_for_player(&self, player, hand_info, board, info)
update_from_hat_info_for_player(self, player, hand_info, info) ==
    The({ [fail |-> IF run.fail # "ok" THEN run.fail
                    ELSE IF run.info.value # 0 THEN "assert:174" ELSE "ok",
           rest |-> run.info, hand_info |-> run.hand_info, log |-> run.log]
          : run \in { ask_questions(self, player, StartOfRun(hand_info, info, info.modulus),
                                    FALSE, info.modulus, 0) } })

\* fn set_player_infos(&mut self, infos): set_player_info for each pair, then
\* update_other_info (which does nothing by default)
RECURSIVE set_player_infos(_, _)
set_player_infos(self, infos) ==
    IF infos = << >> THEN self
    ELSE set_player_infos([self EXCEPT ![Head(infos)[1]] = Head(infos)[2]], Tail(infos))

\* the fold of get_hat_sum (lines 190-196): sum_info.add(&info) for each info
RECURSIVE SumInfos(_, _)
SumInfos(sum_info, infos) ==
    IF infos = << >> THEN [fail |-> "ok", self |-> sum_info]
    ELSE LET r == add(sum_info, Head(infos))
         IN  IF r.fail # "ok" THEN r ELSE SumInfos(r.self, Tail(infos))

\* the loop of update_from_hat_sum (lines 214-216): info.subtract(&other_info)
RECURSIVE SubtractInfos(_, _)
SubtractInfos(info, other_infos) ==
    IF other_infos = << >> THEN [fail |-> "ok", self |-> info]
    ELSE LET r == subtract(info, Head(other_infos))
         IN  IF r.fail # "ok" THEN r ELSE SubtractInfos(r.self, Tail(other_infos))

\* the map over the players with the snapshot updated as it goes: each
\* player's questions are asked against what the players before it left
RECURSIVE HatInfos_threaded(_, _, _, _)
HatInfos_threaded(self, players, total_info, view) ==
    IF players = << >> THEN << >>
    ELSE The({ << first >> \o HatInfos_threaded(
                                  [self EXCEPT ![Head(players)] = first.hand_info],
                                  Tail(players), total_info, view)
               : first \in { get_hat_info_for_player(self, Head(players), self[Head(players)],
                                                     total_info, view) } })

\* the map over the players of get_hat_sum and update_from_hat_sum (lines
\* 184-188, 207-213): each player's residue and new belief state, computed
\* against the snapshot as it is
RECURSIVE HatInfos(_, _, _, _)
HatInfos(self, players, total_info, view) ==
    IF players = << >> THEN << >>
    ELSE << get_hat_info_for_player(self, Head(players), self[Head(players)], total_info, view) >>
         \o HatInfos(self, Tail(players), total_info, view)

FirstFailure(results) ==
    LET bad == { i \in 1..Len(results) : results[i].fail # "ok" }
    IN  IF bad = {} THEN "ok"
        ELSE results[CHOOSE i \in bad : \A j \in bad : i <= j].fail

\* get_hat_sum from the unzip on (lines 188-196), given the map's results
SumOfResults(self, total_info, players, results) ==
    LET infos == [i \in 1..Len(players) |-> results[i].ret]
        new_player_hands == [i \in 1..Len(players) |-> << players[i], results[i].hand_info >>]
        updated == set_player_infos(self, new_player_hands)
        zero == new(total_info, 0)
        sum == SumInfos(zero.ret, infos)
    IN  IF FirstFailure(results) # "ok"
        THEN [fail |-> FirstFailure(results), ret |-> none, self |-> self, infos |-> << >>]
        ELSE IF zero.fail # "ok"
        THEN [fail |-> zero.fail, ret |-> none, self |-> updated, infos |-> infos]
        ELSE [fail |-> sum.fail, ret |-> sum.self, self |-> updated, infos |-> infos]

\* get_hat_sum that computes the sum and leaves the snapshot as it was
get_hat_sum_uncommitted(self, total_info, view) ==
    IF total_info = 1
    THEN [fail |-> "ok", ret |-> none, self |-> self, infos |-> << >>]
    ELSE The({ [SumOfResults(self, total_info, get_other_players(view), results)
                    EXCEPT !.self = self]
               : results \in { HatInfos(self, get_other_players(view), total_info, view) } })

\* get_hat_sum without the early return of lines 181-183
get_hat_sum_no_early_return(self, total_info, view) ==
    The({ SumOfResults(self, total_info, get_other_players(view), results)
          : results \in { HatInfos(self, get_other_players(view), total_info, view) } })

\* get_hat_sum with the iterator of line 184 yielding the players in the
\* order given
get_hat_sum_over(self, total_info, view, players) ==
    IF total_info = 1
    THEN [fail |-> "ok", ret |-> none, self |-> self, infos |-> << >>]
    ELSE The({ SumOfResults(self, total_info, players, results)
               : results \in { HatInfos(self, players, total_info, view) } })

\* fn get_hat_sum(&mut self, total_info, view) -> ModulusInformation
get_hat_sum(self, total_info, view) ==
    IF total_info = 1
    THEN [fail |-> "ok", ret |-> none, self |-> self, infos |-> << >>]
    ELSE The({ SumOfResults(self, total_info, get_other_players(view), results)
               : results \in { HatInfos(self, get_other_players(view), total_info, view) } })

\* update_from_hat_sum storing the other players' belief states right after
\* the unzip, before the subtractions and the assertions
UpdateFromResults_stores_first(self, info, view, players, results) ==
    LET other_infos == [i \in 1..Len(players) |-> results[i].ret]
        new_player_hands == [i \in 1..Len(players) |-> << players[i], results[i].hand_info >>]
        left == SubtractInfos(info, other_infos)
        me == view.player
        stored == set_player_infos(self, new_player_hands)
        Quit(why, rest) == [fail |-> why, self |-> stored, leftover |-> rest, infos |-> other_infos]
    IN  IF FirstFailure(results) # "ok" THEN Quit(FirstFailure(results), info)
        ELSE IF left.fail # "ok" THEN Quit(left.fail, left.self)
        ELSE IF me = view.board.player
        THEN IF left.self.value # 0 THEN Quit("assert:219", left.self)
             ELSE [fail |-> "ok", self |-> stored, leftover |-> left.self, infos |-> other_infos]
        ELSE The({ IF mine.fail # "ok" THEN Quit(mine.fail, left.self)
                   ELSE [fail |-> "ok",
                         self |-> set_player_infos(self,
                                      Append(new_player_hands, << me, mine.hand_info >>)),
                         leftover |-> left.self, infos |-> other_infos]
                   : mine \in { update_from_hat_info_for_player(self, me, self[me], left.self) } })

\* update_from_hat_sum from the unzip on (lines 213-225), given the map's results
UpdateFromResults(self, info, view, players, results) ==
    LET other_infos == [i \in 1..Len(players) |-> results[i].ret]
        new_player_hands == [i \in 1..Len(players) |-> << players[i], results[i].hand_info >>]
        left == SubtractInfos(info, other_infos)
        me == view.player
        Quit(why, rest) == [fail |-> why, self |-> self, leftover |-> rest, infos |-> other_infos]
    IN  IF FirstFailure(results) # "ok" THEN Quit(FirstFailure(results), info)
        ELSE IF left.fail # "ok" THEN Quit(left.fail, left.self)
        ELSE IF me = view.board.player
        THEN IF left.self.value # 0 THEN Quit("assert:219", left.self)
             ELSE [fail |-> "ok", self |-> set_player_infos(self, new_player_hands),
                   leftover |-> left.self, infos |-> other_infos]
        ELSE The({ IF mine.fail # "ok" THEN Quit(mine.fail, left.self)
                   ELSE [fail |-> "ok",
                         self |-> set_player_infos(self,
                                      Append(new_player_hands, << me, mine.hand_info >>)),
                         leftover |-> left.self, infos |-> other_infos]
                   : mine \in { update_from_hat_info_for_player(self, me, self[me], left.self) } })

\* update_from_hat_sum that does not leave the acting player out
update_from_hat_sum_unfiltered(self, info, view) ==
    IF info.modulus = 1
    THEN [fail |-> "ok", self |-> self, leftover |-> info, infos |-> << >>]
    ELSE The({ UpdateFromResults(self, info, view, get_other_players(view), results)
               : results \in { HatInfos(self, get_other_players(view), info.modulus, view) } })

\* update_from_hat_sum with the iterator of line 207 yielding the players in
\* the order given (the acting player filtered out)
update_from_hat_sum_over(self, info, view, players) ==
    IF info.modulus = 1
    THEN [fail |-> "ok", self |-> self, leftover |-> info, infos |-> << >>]
    ELSE The({ UpdateFromResults(self, info, view, players, results)
               : results \in { HatInfos(self, players, info.modulus, view) } })

\* fn update_from_hat_sum(&mut self, info, view)
update_from_hat_sum(self, info, view) ==
    LET info_source == view.board.player
        NotSource(player) == player # info_source
        players == SelectSeq(get_other_players(view), NotSource)
    IN  IF info.modulus = 1
        THEN [fail |-> "ok", self |-> self, leftover |-> info, infos |-> << >>]
        ELSE The({ UpdateFromResults(self, info, view, players, results)
                   : results \in { HatInfos(self, players, info.modulus, view) } })

\* decide_action_not_known_to_be_possible with the test of the sum inverted
decide_on_nonzero_sum(self, num_states, view) ==
    The({ IF hat_sum.fail # "ok" THEN [fail |-> hat_sum.fail, ret |-> FALSE, self |-> self]
          ELSE IF hat_sum.ret.value # 0
          THEN The({ [fail |-> committed.fail, ret |-> TRUE, self |-> committed.self]
                     : committed \in { get_hat_sum(self, num_states, view) } })
          ELSE [fail |-> "ok", ret |-> FALSE, self |-> self]
          : hat_sum \in { get_hat_sum(self, num_states, view) } })

\* decide_action_not_known_to_be_possible computing the sum on self, not on a clone
decide_without_clone(self, num_states, view) ==
    The({ IF hat_sum.fail # "ok" THEN [fail |-> hat_sum.fail, ret |-> FALSE, self |-> hat_sum.self]
          ELSE IF hat_sum.ret.value = 0
          THEN The({ [fail |-> committed.fail, ret |-> TRUE, self |-> committed.self]
                     : committed \in { get_hat_sum(hat_sum.self, num_states, view) } })
          ELSE [fail |-> "ok", ret |-> FALSE, self |-> hat_sum.self]
          : hat_sum \in { get_hat_sum(self, num_states, view) } })

\* fn decide_action_not_known_to_be_possible(&mut self, num_states, view) -> bool
decide_action_not_known_to_be_possible(self, num_states, view) ==
    The({ IF hat_sum.fail # "ok" THEN [fail |-> hat_sum.fail, ret |-> FALSE, self |-> self]
          ELSE IF hat_sum.ret.value = 0
          THEN The({ [fail |-> committed.fail, ret |-> TRUE, self |-> committed.self]
                     : committed \in { get_hat_sum(self, num_states, view) } })
          ELSE [fail |-> "ok", ret |-> FALSE, self |-> self]
          : hat_sum \in { get_hat_sum(self, num_states, view) } })

\* fn update_from_action_not_known_to_be_possible(&mut self, num_states, view)
update_from_action_not_known_to_be_possible(self, num_states, view) ==
    update_from_hat_sum(self, Residue(num_states, 0), view)

----------------------------------------------------------------------------
(* Bounds of the exploration *)

MaxModulus == 3    \* moduli of the residues drawn as inputs: 1..MaxModulus
MaxArg == 3        \* u32 arguments (ceilings, split points) drawn: 0..MaxArg
MaxCalls == 2      \* calls made in one behaviour
MaxSumCalls == 3   \* calls made in a behaviour of add and subtract calls alone
NumHands == 3      \* hands a player may hold in a game: 0..NumHands-1
MaxCeiling == 3    \* ceilings (total_info, num_states) drawn in a game: 0..MaxCeiling
MaxTurns == 2      \* turns played in a game
MaxTurnCalls == 2  \* calls the acting player makes in one turn
CodecHands == 5    \* hands in an encode/decode run: 0..CodecHands-1
CodecCeiling == 6  \* ceilings drawn in an encode/decode run: 0..CodecCeiling

Args == 0..MaxArg
\* the residues ModulusInformation::new builds from the drawn numbers
ValidResidues ==
    { new(m, v).ret : <<m, v>> \in { mv \in (1..MaxModulus) \X (0..MaxModulus) : new(mv[1], mv[2]).fail = "ok" } }

----------------------------------------------------------------------------
(* The residue algebra driven call by call.  reg.a is the value the calls  *)
(* are made on; reg.b holds the piece a split has just returned (and the   *)
(* no-information residue once that piece is out of use).                  *)

Call(op, self, other, arg, r, ret, num) ==
    [op |-> op, self |-> self, other |-> other, arg |-> arg,
     fail |-> r.fail, after |-> r.self, ret |-> ret, num |-> num]

AlgebraOnly == UNCHANGED << overflow_checks, mode, strategy, board, phase, hands, pub, msgs, seen >>

Sums(t) == \A i \in 1..Len(t) : t[i].op \in {"add", "subtract"}

\* The history keeps the last two calls, and the last three while they are
\* all add or subtract calls (a running sum).
Recent(t) ==
    IF Len(t) > 3 \/ (Len(t) > 2 /\ ~Sums(t)) THEN Tail(t) ELSE t

MayCall(op) ==
    /\ mode = "algebra"
    /\ ~aborted
    /\ \/ ncalls < MaxCalls
       \/ ncalls < MaxSumCalls /\ ncalls = Len(trail) /\ Sums(trail)
                /\ op \in {"add", "subtract"}

Record(call, a, b) ==
    /\ trail' = Recent(Append(trail, call))
    /\ ncalls' = ncalls + 1
    /\ reg' = [a |-> a, b |-> b]
    /\ aborted' = (call.fail # "ok")
    /\ AlgebraOnly

\* let a = ModulusInformation::new(m, v);
New ==
    \E m \in Args, v \in 0..MaxArg :
        LET r == new(m, v) IN
        /\ MayCall("new")
        /\ Record(Call("new", reg.a, none, m, [fail |-> r.fail, self |-> reg.a], r.ret, v),
                  IF r.fail = "ok" THEN r.ret ELSE reg.a, none)

\* a.info_remaining(c)
InfoRemaining ==
    \E c \in Args :
        LET r == info_remaining(reg.a, c) IN
        /\ MayCall("info_remaining")
        /\ Record(Call("info_remaining", reg.a, none, c, [fail |-> r.fail, self |-> reg.a], none, r.ret),
                  reg.a, none)

\* a.combine(o, c)
Combine ==
    \E o \in ValidResidues, c \in Args :
        LET r == combine(reg.a, o, c) IN
        /\ MayCall("combine")
        /\ Record(Call("combine", reg.a, o, c, r, none, 0), r.self, none)

\* let b = a.split(s);
Split ==
    \E s \in Args :
        LET r == split(reg.a, s) IN
        /\ MayCall("split")
        /\ Record(Call("split", reg.a, none, s, r, r.ret, 0),
                  r.self, IF r.fail = "ok" THEN r.ret ELSE none)

\* b.combine(a, c): the piece a split returned takes the remainder back
CombineBack ==
    \E c \in Args :
        LET r == combine(reg.b, reg.a, c) IN
        /\ MayCall("combine_back")
        /\ trail # << >> /\ trail[Len(trail)].op = "split"
        /\ Record(Call("combine_back", reg.b, reg.a, c, r, none, 0), reg.a, r.self)

\* a.cast_up(m)
CastUp ==
    \E m \in Args :
        LET r == cast_up(reg.a, m) IN
        /\ MayCall("cast_up")
        /\ Record(Call("cast_up", reg.a, none, m, r, none, 0), r.self, none)

\* a.add(&o)
Add ==
    \E o \in ValidResidues :
        LET r == add(reg.a, o) IN
        /\ MayCall("add")
        /\ Record(Call("add", reg.a, o, 0, r, none, 0), r.self, none)

\* a.subtract(&o)
Subtract ==
    \E o \in ValidResidues :
        LET r == subtract(reg.a, o) IN
        /\ MayCall("subtract")
        /\ Record(Call("subtract", reg.a, o, 0, r, none, 0), r.self, none)

InitAlgebra ==
    /\ overflow_checks \in BOOLEAN
    /\ mode = "algebra"
    /\ reg \in [a : ValidResidues, b : {none}]
    /\ trail = << >>
    /\ ncalls = 0
    /\ strategy = "none"
    /\ board = [player |-> 0, turn |-> 0]
    /\ phase = "none"
    /\ hands = << >>
    /\ pub = << >>
    /\ msgs = << >>
    /\ seen = << >>
    /\ aborted = FALSE

NextAlgebra ==
    \/ New
    \/ InfoRemaining
    \/ Combine
    \/ Split
    \/ CombineBack
    \/ CastUp
    \/ Add
    \/ Subtract

SpecAlgebra == InitAlgebra /\ [][NextAlgebra]_vars

----------------------------------------------------------------------------
(* Properties of the residue algebra (checked under SpecAlgebra) *)

IsValid(r) == ULe(1, r.modulus) /\ ULt(r.value, r.modulus)
Entries == IF mode = "algebra" THEN 1..Len(trail) ELSE {}
Pairs == { i \in Entries : i + 1 \in Entries }
IsCombine(e) == e.op \in {"combine", "combine_back"}

\* C3 as claimed: for a residue r = (M, value) with value < M and a split
\* point 1 <= s <= M, r.split(s) succeeds, and taking the remainder back into
\* the returned piece with ceiling M passes combine's precondition and gives
\* back exactly r: the same value and the same modulus M.
C3_ExactRoundTrip ==
    \A i \in Pairs :
        LET e == trail[i]
            f == trail[i + 1]
        IN  (e.op = "split" /\ e.fail = "ok" /\ IsValid(e.self)
                /\ f.op = "combine_back" /\ f.arg = e.self.modulus)
            => (f.fail = "ok" /\ f.after = e.self)

\* C3 (amended): round trip of split and combine.  For a residue r = (M, value)
\* with value < M and a split point 1 <= s <= M, r.split(s) succeeds, and
\* taking the remainder back into the returned piece with ceiling M passes
\* combine's precondition and gives back the original value; the modulus it
\* leaves is min(M, s * remainder modulus), which is at most M and which a
\* following cast_up(M) widens to M, giving exactly r.
C3_SplitCombineRoundTrip ==
    /\ \A i \in Entries :
        LET e == trail[i] IN
        (e.op = "split" /\ IsValid(e.self) /\ ULe(1, e.arg) /\ ULe(e.arg, e.self.modulus))
            => e.fail = "ok"
    /\ \A i \in Pairs :
        LET e == trail[i]
            f == trail[i + 1]
        IN  (e.op = "split" /\ e.fail = "ok" /\ IsValid(e.self)
                /\ f.op = "combine_back" /\ f.arg = e.self.modulus)
            => /\ f.self = e.ret /\ f.other = e.after
               /\ f.fail = "ok"
               /\ f.after.value = e.self.value
               /\ f.after.modulus = UMin(e.self.modulus, e.arg * e.after.modulus)
               /\ ULe(f.after.modulus, e.self.modulus)
               /\ cast_up(f.after, e.self.modulus) = [fail |-> "ok", self |-> e.self]

\* a split whose pieces combine back to the value under a smaller modulus
C3_Witness ==
    /\ mode = "algebra"
    /\ Len(trail) = 2 /\ ncalls = 2
    /\ trail[1].op = "split" /\ trail[1].self = Residue(3, 1) /\ trail[1].arg = 2
    /\ trail[1].ret = Residue(2, 1) /\ trail[1].after = Residue(1, 0)
    /\ trail[2].op = "combine_back" /\ trail[2].arg = 3 /\ trail[2].fail = "ok"
    /\ reg.b = Residue(2, 1)

\* C4: for valid residues a = (m1, va), b = (m2, vb) and every ceiling c for
\* which m2 <= a.info_remaining(c), a.combine(b, c) completes and leaves a with
\* modulus min(c, m1*m2) and value va + m1*vb, the value below the modulus.
C4_CombineFormula ==
    \A i \in Entries :
        LET e  == trail[i]
            ir == info_remaining(e.self, e.arg)
        IN  (IsCombine(e) /\ IsValid(e.self) /\ IsValid(e.other)
                /\ ir.fail = "ok" /\ ULe(e.other.modulus, ir.ret))
            => /\ e.fail = "ok"
               /\ e.after.modulus = UMin(e.arg, e.self.modulus * e.other.modulus)
               /\ e.after.value = e.self.value + e.self.modulus * e.other.value
               /\ ULt(e.after.value, e.after.modulus)

\* C5: info_remaining is tight.  For a valid residue a with a.value < c the call
\* a.info_remaining(c) passes both of its assertions and returns
\* r = floor((c - a.value - 1) / a.modulus) + 1; combining any residue of modulus
\* at most r into a with ceiling c succeeds, combining one of modulus r + 1 fails
\* combine's precondition, and some value of such a residue would lift the
\* combined value to c or above.
C5_InfoRemainingTight ==
    /\ \A i \in Entries :
        LET e == trail[i]
            r == e.num
        IN  (e.op = "info_remaining" /\ IsValid(e.self) /\ ULt(e.self.value, e.arg))
            => /\ e.fail = "ok"
               /\ r = ((e.arg - e.self.value - 1) \div e.self.modulus) + 1
               /\ \A k \in 1..r : \A v \in 0..(k - 1) :
                      combine(e.self, Residue(k, v), e.arg).fail = "ok"
               /\ \A v \in 0..r :
                      combine(e.self, Residue(r + 1, v), e.arg).fail = "assert:23"
               /\ \E v \in 0..r : e.self.value + e.self.modulus * v >= e.arg
    /\ \A i \in Pairs :
        LET e == trail[i]
            f == trail[i + 1]
        IN  (e.op = "info_remaining" /\ IsValid(e.self) /\ ULt(e.self.value, e.arg)
                /\ f.op = "combine" /\ f.arg = e.arg)
            => /\ f.other.modulus <= e.num => f.fail = "ok"
               /\ f.other.modulus = e.num + 1 => f.fail = "assert:23"

\* a budget of 2 is reported and a residue of modulus 3 is then refused
C5_Witness ==
    /\ mode = "algebra"
    /\ Len(trail) = 2 /\ ncalls = 2
    /\ trail[1].op = "info_remaining" /\ trail[1].self.modulus = 2 /\ trail[1].num = 2
    /\ trail[2].op = "combine" /\ trail[2].other.modulus = 3 /\ trail[2].fail = "assert:23"

\* C6: modular inverse law.  For valid residues a and b of equal modulus,
\* a.add(b) followed by a.subtract(b) gives a back, value and modulus; and a
\* sum of residues of one modulus, started from value 0, from which all of them
\* but one are subtracted again, is exactly the remaining one.
C6_AddSubtractInverse ==
    /\ \A i \in Pairs :
        LET e == trail[i]
            f == trail[i + 1]
        IN  (e.op = "add" /\ IsValid(e.self) /\ e.other.modulus = e.self.modulus
                /\ f.op = "subtract" /\ f.other = e.other)
            => (e.fail = "ok" /\ f.fail = "ok" /\ f.after = e.self)
    /\ \A i \in Pairs :
        (i + 2 \in Entries
            /\ trail[i].op = "add" /\ trail[i + 1].op = "add" /\ trail[i + 2].op = "subtract"
            /\ IsValid(trail[i].self) /\ trail[i].self.value = 0
            /\ trail[i].other.modulus = trail[i].self.modulus
            /\ trail[i + 1].other.modulus = trail[i].self.modulus)
        => /\ trail[i + 2].other = trail[i].other
                => (trail[i + 2].fail = "ok" /\ trail[i + 2].after = trail[i + 1].other)
           /\ trail[i + 2].other = trail[i + 1].other
                => (trail[i + 2].fail = "ok" /\ trail[i + 2].after = trail[i].other)

\* two residues summed past the modulus, the first subtracted again
C6_Witness ==
    /\ mode = "algebra"
    /\ Len(trail) = 3 /\ ncalls = 3
    /\ trail[1].op = "add" /\ trail[1].self = Residue(3, 0) /\ trail[1].other = Residue(3, 2)
    /\ trail[2].op = "add" /\ trail[2].other = Residue(3, 1) /\ trail[2].after = Residue(3, 0)
    /\ trail[3].op = "subtract" /\ trail[3].other = Residue(3, 2)
    /\ reg.a = Residue(3, 1)

----------------------------------------------------------------------------
(* The protocol played turn by turn.  Every agent owns a snapshot          *)
(* (pub[agent] gives the belief state it holds for each player).  The      *)
(* player whose turn it is makes its calls, each successful transmission   *)
(* leaves a message for the others, and every other agent then updates its *)
(* own snapshot from each message in order.                                *)

Players == {0, 1, 2}
Hands == 0..(NumHands - 1)
Ceilings == 0..MaxCeiling
Strategies == {"greedy", "pairs", "padded", "peers", "eager"}
Observers == Players \ {board.player}
MyView(me) == View(me, board.player, hands)

ProtocolCall(op, c, fail, after, ret, flag, leftover) ==
    [op |-> op, agent |-> board.player, arg |-> c, fail |-> fail,
     pre |-> pub[board.player], after |-> after, ret |-> ret, flag |-> flag,
     leftover |-> leftover]

Message(kind, info) ==
    [source |-> board.player, kind |-> kind, info |-> info, pre |-> pub[board.player]]

\* A turn is one call, or decide_action_not_known_to_be_possible called
\* again and again with the same number of states.
MayAct(op, c) ==
    /\ mode = "protocol"
    /\ ~aborted
    /\ phase = "act"
    /\ \/ ncalls = 0
       \/ ncalls > 0 /\ ncalls < MaxTurnCalls /\ op = "decide"
                     /\ trail[Len(trail)].op = "decide" /\ trail[Len(trail)].arg = c

\* what a call of the acting player leaves behind
Acted(call, sent) ==
    /\ trail' = (IF Len(trail) > 1 THEN Tail(trail) ELSE trail) \o << call >>
    /\ ncalls' = ncalls + 1
    /\ pub' = [pub EXCEPT ![board.player] = call.after]
    /\ msgs' = IF call.fail = "ok" THEN msgs \o sent ELSE msgs
    /\ aborted' = (call.fail # "ok")
    /\ UNCHANGED << overflow_checks, mode, reg, strategy, board, phase, hands, seen >>

\* let info = public_info.get_hat_sum(c, view); then the move that shows info
GetHatSum ==
    \E c \in Ceilings :
        /\ MayAct("get_hat_sum", c)
        /\ \E r \in { get_hat_sum(pub[board.player], c, MyView(board.player)) } :
            Acted(ProtocolCall("get_hat_sum", c, r.fail, r.self, r.ret, FALSE, none),
                 << Message("hat_sum", r.ret) >>)

\* let info = public_info.clone().get_hat_sum(c, view); the move that shows
\* info; public_info.update_from_hat_sum(info, view) by the acting player
SelfUpdate ==
    \E c \in Ceilings :
        /\ MayAct("self_update", c)
        /\ \E sum \in { get_hat_sum(pub[board.player], c, MyView(board.player)) } :
            IF sum.fail # "ok"
            THEN Acted(ProtocolCall("self_update", c, sum.fail, pub[board.player], none, FALSE, none),
                       << >>)
            ELSE \E r \in { update_from_hat_sum(pub[board.player], sum.ret, MyView(board.player)) } :
                    Acted(ProtocolCall("self_update", c, r.fail, r.self, sum.ret, FALSE, r.leftover),
                          << Message("hat_sum", sum.ret) >>)

\* if public_info.decide_action_not_known_to_be_possible(n, view) { the action }
Decide ==
    \E n \in Ceilings :
        /\ MayAct("decide", n)
        /\ \E r \in { decide_action_not_known_to_be_possible(pub[board.player], n,
                                                               MyView(board.player)) } :
            Acted(ProtocolCall("decide", n, r.fail, r.self, none, r.ret, none),
                 IF r.ret THEN << Message("action", Residue(n, 0)) >> ELSE << >>)

\* the acting player makes its move: the others see it
Move ==
    /\ mode = "protocol" /\ ~aborted /\ phase = "act" /\ ncalls > 0
    /\ phase' = "update"
    /\ UNCHANGED << overflow_checks, mode, reg, trail, ncalls, strategy, board, hands, pub,
                    msgs, seen, aborted >>

MayUpdate(o, kind) ==
    /\ mode = "protocol" /\ ~aborted /\ phase = "update"
    /\ o \in Observers
    /\ seen[o].n < Len(msgs)
    /\ msgs[seen[o].n + 1].kind = kind

Updated(o, r) ==
    /\ pub' = [pub EXCEPT ![o] = r.self]
    /\ seen' = [seen EXCEPT ![o] = [n |-> seen[o].n + 1, fail |-> r.fail]]
    /\ aborted' = (r.fail # "ok")
    /\ UNCHANGED << overflow_checks, mode, reg, trail, ncalls, strategy, board, phase, hands, msgs >>

\* public_info.update_from_hat_sum(info, view) by an agent that saw the move
UpdateFromHatSum ==
    \E o \in Players :
        /\ MayUpdate(o, "hat_sum")
        /\ \E r \in { update_from_hat_sum(pub[o], msgs[seen[o].n + 1].info, MyView(o)) } :
            Updated(o, r)

\* public_info.update_from_action_not_known_to_be_possible(n, view)
UpdateFromAction ==
    \E o \in Players :
        /\ MayUpdate(o, "action")
        /\ \E r \in { update_from_action_not_known_to_be_possible(
                          pub[o], msgs[seen[o].n + 1].info.modulus, MyView(o)) } :
            Updated(o, r)

\* public_info.update_from_hat_sum(info, view) at the start of a turn, by any
\* agent, for a residue that no get_hat_sum of this turn returned (the
\* schedules of two agents do not match).  The agents are out of step from
\* here on: the game leaves the protocol and is not followed further.
UpdateFromStraySum ==
    \E a \in Players :
    \E m \in 1..MaxCeiling :
    \E v \in 0..(m - 1) :
        /\ mode = "protocol" /\ ~aborted /\ phase = "act" /\ ncalls = 0
        /\ \E r \in { update_from_hat_sum(pub[a], Residue(m, v), MyView(a)) } :
            /\ trail' = << [ProtocolCall("stray_update", m, r.fail, r.self, Residue(m, v),
                                         FALSE, r.leftover)
                             EXCEPT !.agent = a, !.pre = pub[a]] >>
            /\ pub' = [pub EXCEPT ![a] = r.self]
            /\ aborted' = (r.fail # "ok")
        /\ ncalls' = ncalls + 1
        /\ mode' = "stray"
        /\ UNCHANGED << overflow_checks, reg, strategy, board, phase, hands, msgs, seen >>

AllSeen == \A o \in Observers : seen[o].n = Len(msgs)
NothingSeen == [p \in Players |-> [n |-> 0, fail |-> "ok"]]

\* every agent has updated: the turn passes to the next seat, or the same
\* player moves again
NextTurn ==
    \E p \in {board.player, (board.player + 1) % Cardinality(Players)} :
        /\ mode = "protocol" /\ ~aborted /\ phase = "update"
        /\ AllSeen
        /\ board.turn < MaxTurns
        /\ board' = [player |-> p, turn |-> board.turn + 1]
        /\ phase' = "act"
        /\ msgs' = << >>
        /\ seen' = NothingSeen
        /\ trail' = << >>
        /\ ncalls' = 0
        /\ UNCHANGED << overflow_checks, mode, reg, strategy, hands, pub, aborted >>

\* PublicInformation::new(&board) for every agent: nothing is known yet
InitProtocol ==
    /\ overflow_checks \in BOOLEAN
    /\ mode = "protocol"
    /\ reg = [a |-> none, b |-> none]
    /\ trail = << >>
    /\ ncalls = 0
    /\ strategy \in Strategies
    /\ board = [player |-> 0, turn |-> 1]
    /\ phase = "act"
    /\ hands \in [Players -> Hands]
    /\ pub = [a \in Players |-> [p \in Players |-> Hands]]
    /\ msgs = << >>
    /\ seen = NothingSeen
    /\ aborted = FALSE

NextProtocol ==
    \/ GetHatSum
    \/ SelfUpdate
    \/ Decide
    \/ Move
    \/ UpdateFromHatSum
    \/ UpdateFromAction
    \/ UpdateFromStraySum
    \/ NextTurn

SpecProtocol == InitProtocol /\ [][NextProtocol]_vars

----------------------------------------------------------------------------
(* One encode/decode run.  Agent 0 sees the hand of a player and encodes   *)
(* it with get_hat_info_for_player; player 1 decodes the residue with      *)
(* update_from_hat_info_for_player from the same starting belief state.    *)

CodecHandSet == 0..(CodecHands - 1)

CodecCall(op, agent, player, c, r, ret) ==
    [op |-> op, agent |-> agent, player |-> player, arg |-> c, fail |-> r.fail,
     start |-> pub[agent][player], ret |-> ret, hand_info |-> r.hand_info, log |-> r.log]

CodecStep(call) ==
    /\ trail' = Append(trail, call)
    /\ ncalls' = ncalls + 1
    /\ aborted' = (call.fail # "ok")
    /\ UNCHANGED << overflow_checks, mode, reg, strategy, board, phase, hands, pub, msgs, seen >>

\* let r = public_info.get_hat_info_for_player(&player, &mut hand_info, c, &view);
Encode ==
    \E c \in 0..CodecCeiling, player \in {0, 1} :
        /\ mode = "codec" /\ ~aborted /\ trail = << >>
        /\ \E r \in { get_hat_info_for_player(pub[0], player, pub[0][player], c, MyView(0)) } :
            CodecStep(CodecCall("encode", 0, player, c, r, r.ret))

\* public_info.update_from_hat_info_for_player(&player, &mut hand_info, &board, r);
Decode ==
    /\ mode = "codec" /\ ~aborted /\ Len(trail) = 1 /\ trail[1].op = "encode"
    /\ \E e \in { trail[1] } :
       \E r \in { update_from_hat_info_for_player(pub[e.player], e.player,
                                                   pub[e.player][e.player], e.ret) } :
        CodecStep(CodecCall("decode", e.player, e.player, e.ret.modulus, r, r.rest))

\* public_info.update_from_hat_info_for_player(&player, &mut hand_info, &board, info)
\* for a residue that did not come from the encoder
DecodeAny ==
    \E m \in 1..CodecCeiling :
    \E v \in 0..(m - 1) :
        /\ mode = "codec" /\ ~aborted /\ trail = << >>
        /\ \E r \in { update_from_hat_info_for_player(pub[1], 1, pub[1][1], Residue(m, v)) } :
            CodecStep(CodecCall("decode_any", 1, 1, m, r, r.rest))

InitCodec ==
    /\ overflow_checks \in BOOLEAN
    /\ mode = "codec"
    /\ reg = [a |-> none, b |-> none]
    /\ trail = << >>
    /\ ncalls = 0
    /\ strategy \in Strategies
    /\ board = [player |-> 0, turn |-> 1]
    /\ phase = "none"
    /\ hands \in { [p \in Players |-> IF p = 1 THEN x ELSE 0] : x \in CodecHandSet }
    /\ pub \in { [a \in Players |-> [p \in Players |-> h]] : h \in SUBSET CodecHandSet }
    /\ msgs = << >>
    /\ seen = NothingSeen
    /\ aborted = FALSE

NextCodec ==
    \/ Encode
    \/ Decode
    \/ DecodeAny

SpecCodec == InitCodec /\ [][NextCodec]_vars

----------------------------------------------------------------------------
(* Properties of the encoder and the decoder (checked under SpecCodec) *)

Decoded == mode = "codec" /\ Len(trail) = 2

\* C2: update_from_hat_info_for_player inverts get_hat_info_for_player.  Fed
\* the residue the encoder returned and started from the same belief state,
\* the decoder does not abort, asks the same questions in the same order,
\* splits off for each question the answer the encoder combined in, ends with
\* the belief state the encoder ended with, and is left with value 0.
C2_DecoderInvertsEncoder ==
    Decoded =>
        LET e == trail[1]
            d == trail[2]
        IN  /\ d.start = e.start
            /\ d.fail = "ok"
            /\ Len(d.log) = Len(e.log)
            /\ \A i \in 1..Len(e.log) :
                    /\ d.log[i].question = e.log[i].question
                    /\ d.log[i].answer = e.log[i].answer
            /\ d.hand_info = e.hand_info
            /\ d.ret.value = 0

\* two questions with different answers decoded from a residue that is not 0
C2_Witness ==
    /\ Decoded
    /\ trail[2].fail = "ok"
    /\ Len(trail[1].log) = 2
    /\ trail[2].log[1].answer # trail[2].log[2].answer
    /\ trail[1].ret.value # 0
    /\ trail[2].hand_info # trail[2].start

----------------------------------------------------------------------------
(* Properties of the protocol (checked under SpecProtocol) *)

Playing == mode = "protocol"
\* the calls of the acting player, looked at until its move ends the turn
ActorCalls == IF Playing /\ phase = "act" THEN 1..Len(trail) ELSE {}
CallView(e) == View(e.agent, e.agent, hands)
Synced(o) == o \in Observers /\ seen[o].n = Len(msgs)

\* C1: the agents start with equal snapshots.  Whenever the acting agent's
\* calls went through and an observer has updated from every message, the
\* observer's snapshot equals the acting agent's, in every round; no update of
\* an observer aborts; and the belief state an observer holds for a player
\* that is neither itself nor the actor is the one get_hat_info_for_player
\* produces for that player from the snapshot before the round.
C1_AgreementAfterRound ==
    Playing =>
        /\ \A o \in Players : seen[o].fail = "ok"
        /\ ~aborted =>
              \A o \in Players : Synced(o) =>
                  /\ pub[o] = pub[board.player]
                  /\ msgs # << >> =>
                        LET m == msgs[Len(msgs)] IN
                        \A q \in Players \ {o, m.source} :
                            pub[o][q] = IF m.info.modulus = 1 THEN m.pre[q]
                                        ELSE get_hat_info_for_player(m.pre, q, m.pre[q],
                                                 m.info.modulus, View(m.source, m.source, hands)).hand_info

\* in the second round every agent has updated from a sum that is not 0 and
\* shrank belief states that the first round had already shrunk
C1_Witness ==
    /\ Playing /\ ~aborted /\ phase = "update" /\ board.turn = 2
    /\ AllSeen
    /\ Len(msgs) = 1 /\ msgs[1].kind = "hat_sum" /\ msgs[1].info.value # 0
    /\ \E q \in Players : msgs[1].pre[q] # Hands /\ pub[board.player][q] # msgs[1].pre[q]
    /\ \A o \in Observers : pub[o][o] # msgs[1].pre[o]

RECURSIVE SumOfValues(_)
SumOfValues(infos) ==
    IF infos = << >> THEN 0 ELSE Head(infos).value + SumOfValues(Tail(infos))

\* C7: for a ceiling c >= 2, get_hat_sum never fails the precondition of
\* cast_up or add, and it returns whenever ask_questions keeps to the budget;
\* the residue it returns has modulus c and a value in [0, c) that is the sum
\* modulo c of the residues get_hat_info_for_player yields for the other
\* players, each of which has modulus c.
C7_HatSumIsModularSum ==
    \A i \in ActorCalls :
        LET e == trail[i]
            c == e.arg
            players == get_other_players(CallView(e))
            infos == [k \in 1..Len(players) |->
                        get_hat_info_for_player(e.pre, players[k], e.pre[players[k]], c, CallView(e)).ret]
        IN  (e.op = "get_hat_sum" /\ c >= 2) =>
                /\ e.fail \notin {"assert:58", "assert:69"}
                /\ strategy # "eager" => e.fail = "ok"
                /\ e.fail = "ok" =>
                      /\ e.ret.modulus = c
                      /\ e.ret.value >= 0 /\ e.ret.value < c
                      /\ e.ret.value = SumOfValues(infos) % c
                      /\ \A k \in 1..Len(players) : infos[k].modulus = c

\* a sum of two residues that wraps around the ceiling
C7_Witness ==
    /\ Playing /\ trail # << >>
    /\ LET e == trail[Len(trail)] IN
        /\ e.op = "get_hat_sum" /\ e.fail = "ok" /\ e.arg = 3
        /\ e.ret.value = 1
        /\ e.after # e.pre

\* C8: the acting agent takes v from get_hat_sum(c, view) on a copy of its
\* snapshot S and calls update_from_hat_sum((c, v), view) on S: the leftover
\* is 0, the call does not abort, and S ends as get_hat_sum leaves it.
C8_ActorSelfConsistency ==
    \A i \in ActorCalls :
        LET e == trail[i]
            sum == get_hat_sum(e.pre, e.arg, CallView(e))
        IN  (e.op = "self_update" /\ sum.fail = "ok") =>
                /\ e.fail = "ok"
                /\ e.ret = sum.ret
                /\ e.leftover.value = 0
                /\ e.after = sum.self

\* the acting agent updates from a sum that is not 0 and its snapshot changes
C8_Witness ==
    /\ Playing /\ trail # << >>
    /\ LET e == trail[Len(trail)] IN
        /\ e.op = "self_update" /\ e.fail = "ok" /\ e.arg >= 2
        /\ e.ret.value # 0
        /\ e.after # e.pre

\* C9: decide_action_not_known_to_be_possible(n, view) returns true exactly
\* when the hat sum over n states on the current snapshot is 0; when it
\* returns true the snapshot is the one get_hat_sum(n, view) leaves, when it
\* returns false the snapshot is unchanged.
C9_DecideCommitsOnZero ==
    \A i \in ActorCalls :
        LET e == trail[i]
            sum == get_hat_sum(e.pre, e.arg, CallView(e))
        IN  (e.op = "decide" /\ sum.fail = "ok") =>
                /\ e.fail = "ok"
                /\ e.flag <=> (sum.ret.value = 0)
                /\ e.flag => e.after = sum.self
                /\ ~e.flag => e.after = e.pre

\* in the second turn a decision finds the hat sum 0 and commits belief
\* states that the first turn had already shrunk
C9_Witness ==
    /\ Playing /\ phase = "act" /\ Len(trail) = 1 /\ board.turn = 2
    /\ trail[1].op = "decide" /\ trail[1].fail = "ok" /\ trail[1].flag
    /\ trail[1].arg >= 2
    /\ \E q \in Players : trail[1].pre[q] # Hands /\ trail[1].after[q] # trail[1].pre[q]

TwoDecisions ==
    /\ Playing /\ phase = "act" /\ Len(trail) = 2
    /\ trail[1].op = "decide" /\ trail[2].op = "decide"
    /\ trail[1].arg = trail[2].arg
    /\ trail[1].fail = "ok" /\ trail[2].fail = "ok"

\* C10 as claimed: decide_action_not_known_to_be_possible(num_states, view)
\* called twice in immediate succession returns the same boolean both times.
C10_SameOutcomeTwice ==
    TwoDecisions => (trail[1].flag = trail[2].flag)

\* C10: decide_action_not_known_to_be_possible(num_states, view) called twice
\* in immediate succession returns false both times when the first call
\* returns false, and the snapshot is then the one before the first call; a
\* second call after a first that returned true runs on the committed snapshot
\* and returns what the hat sum on that snapshot says.
C10_SilentStaysSilent ==
    TwoDecisions =>
        /\ trail[2].pre = trail[1].after
        /\ ~trail[1].flag => (~trail[2].flag /\ trail[2].after = trail[1].pre)
        /\ trail[1].flag =>
              (trail[2].flag <=>
                  get_hat_sum(trail[1].after, trail[2].arg, CallView(trail[2])).ret.value = 0)

\* two decisions in a row that both stay silent, and the hat sum is not 0
C10_Witness ==
    /\ TwoDecisions
    /\ ~trail[1].flag /\ ~trail[2].flag
    /\ trail[1].arg >= 2

\* C11: get_hat_sum with a ceiling of 1 returns the residue (1, 0) without
\* aborting, and update_from_hat_sum of a residue of modulus 1 returns at
\* once; neither asks a question (no player is mapped over) and neither
\* changes a belief state of the snapshot it is called on, for the acting
\* player and for every observer.
HatSumMessagesOfOne ==
    /\ Playing /\ phase = "update" /\ Len(msgs) > 0
    /\ \A i \in 1..Len(msgs) : msgs[i].kind = "hat_sum" /\ msgs[i].info.modulus = 1
C11_CeilingOneIsNoOp ==
    /\ \A i \in ActorCalls :
          LET e == trail[i]
          IN  /\ (e.op = "get_hat_sum" /\ e.arg = 1) =>
                    /\ e.fail = "ok" /\ e.ret = Residue(1, 0) /\ e.after = e.pre
                    /\ get_hat_sum(e.pre, 1, CallView(e)).infos = << >>
              /\ (e.op = "self_update" /\ e.arg = 1) =>
                    /\ e.fail = "ok" /\ e.ret = Residue(1, 0) /\ e.after = e.pre
                    /\ e.leftover = Residue(1, 0)
                    /\ update_from_hat_sum(e.pre, e.ret, CallView(e)).infos = << >>
    /\ (Playing /\ phase = "update") =>
          \A o \in Observers :
              (/\ seen[o].n < Len(msgs)
               /\ msgs[seen[o].n + 1].kind = "hat_sum"
               /\ msgs[seen[o].n + 1].info.modulus = 1) =>
                  \A r \in { update_from_hat_sum(pub[o], msgs[seen[o].n + 1].info, MyView(o)) } :
                      r.fail = "ok" /\ r.self = pub[o] /\ r.infos = << >>
    /\ HatSumMessagesOfOne =>
          \A o \in Observers :
              seen[o].n = Len(msgs) => seen[o].fail = "ok" /\ pub[o] = msgs[1].pre

\* a second-turn call of get_hat_sum(1, view) on a snapshot that a first turn
\* has narrowed, under the strategy that asks questions of one answer
C11_Witness ==
    /\ Playing /\ phase = "act" /\ Len(trail) = 1
    /\ trail[1].op = "get_hat_sum" /\ trail[1].arg = 1
    /\ strategy = "padded"
    /\ \E p \in Players : trail[1].pre[p] # Hands

\* C12: cast_up only widens.  cast_up(m) on a residue whose modulus is at
\* most m completes, keeps the value, sets the modulus to exactly m and so
\* never makes it smaller; with m below the current modulus it fails the
\* assertion of line 58 and leaves the residue as it was.
C12_CastUpOnlyWidens ==
    \A i \in Entries :
        LET e == trail[i] IN
        e.op = "cast_up" =>
            /\ ULe(e.self.modulus, e.arg) =>
                  /\ e.fail = "ok"
                  /\ e.after.value = e.self.value
                  /\ e.after.modulus = e.arg
                  /\ ULe(e.self.modulus, e.after.modulus)
            /\ ULt(e.arg, e.self.modulus) =>
                  /\ e.fail = "assert:58"
                  /\ e.after = e.self
            /\ (i = Len(trail)) => reg.a = e.after

\* a residue widened from modulus 2 to 3, then refused a cast to 2
C12_Witness ==
    /\ mode = "algebra"
    /\ Len(trail) = 2 /\ ncalls = 2
    /\ trail[1].op = "cast_up" /\ trail[1].self = Residue(2, 1) /\ trail[1].arg = 3
    /\ trail[1].after = Residue(3, 1)
    /\ trail[2].op = "cast_up" /\ trail[2].arg = 2 /\ trail[2].fail = "assert:58"
    /\ reg.a = Residue(3, 1)

\* the product of the info_amounts of the questions of a run
RECURSIVE ProductOfAmounts(_)
ProductOfAmounts(log) ==
    IF log = << >> THEN 1
    ELSE info_amount(log[1].question) * ProductOfAmounts(Tail(log))

\* C13: budget synchronisation.  When the decoder is fed the residue the
\* encoder returned for ceiling c, then after every question the budget the
\* decoder writes back (the modulus of what is left of the residue) equals the
\* budget the encoder wrote back (info_remaining(c) of the residue so far), in
\* runs where the product of the info_amounts exceeds c as in all others.
C13_BudgetsInStep ==
    Decoded =>
        LET e == trail[1]
            d == trail[2]
        IN  /\ Len(d.log) = Len(e.log)
            /\ \A i \in 1..Len(e.log) : d.log[i].budget = e.log[i].budget

\* three questions of two answers each under a ceiling of 5: the product of
\* the amounts is 8, the budgets written back are 3, 2 and 1 on both sides
C13_Witness ==
    /\ Decoded
    /\ trail[1].arg = 5 /\ Len(trail[1].log) = 3
    /\ ProductOfAmounts(trail[1].log) = 8
    /\ trail[2].fail = "ok"
    /\ trail[2].log[1].budget = 3 /\ trail[2].log[2].budget = 2 /\ trail[2].log[3].budget = 1

\* the budget a question of a run is emitted under: the ceiling for the first
\* question, then what the callback wrote back after the question before
BudgetBefore(e, i) == IF i = 1 THEN e.arg ELSE e.log[i - 1].budget
OverBudget(e) ==
    { i \in 1..Len(e.log) :
        ~(ULe(1, info_amount(e.log[i].question))
            /\ ULe(info_amount(e.log[i].question), BudgetBefore(e, i))) }
CodecCalls == IF mode = "codec" THEN 1..Len(trail) ELSE {}
CombineAborts == {"overflow:37", "div0:37", "overflow:38", "assert:38", "overflow:39",
                  "assert:39", "assert:23", "overflow:24", "overflow:25", "assert:26"}
SplitAborts == {"assert:44", "div0:47", "overflow:52", "overflow:53", "assert:53", "assert:11"}

\* a question over the budget ends the run in combine's precondition (the
\* encoder) or in split's (the decoder), at that question
OverBudgetAborts ==
    \A i \in CodecCalls :
        LET e == trail[i] IN
        OverBudget(e) # {} =>
            /\ OverBudget(e) = { Len(e.log) }
            /\ e.op = "encode" => e.fail \in CombineAborts
            /\ e.op \in {"decode", "decode_any"} => e.fail = "assert:44"

\* C14 as claimed: for every ceiling, a run of get_hat_info_for_player whose
\* questions all have an info_amount between 1 and the budget they are emitted
\* under fires no assertion of combine, info_remaining or cast_up.
\* update_from_hat_info_for_player fed the residue of such a run never fails
\* split's precondition or an assertion inside split; and a question whose
\* info_amount exceeds the budget makes combine or split abort.
C14_NoAbortForAnyCeiling ==
    /\ \A i \in CodecCalls :
        LET e == trail[i] IN
        (e.op = "encode" /\ e.player # e.agent /\ OverBudget(e) = {}) => e.fail = "ok"
    /\ Decoded =>
          (OverBudget(trail[1]) = {} => trail[2].fail \notin SplitAborts)
    /\ OverBudgetAborts

\* C14 (amended): for a ceiling of at least 1, a run of
\* get_hat_info_for_player whose questions all have an info_amount between 1
\* and the budget they are emitted under fires no assertion of combine,
\* info_remaining or cast_up; update_from_hat_info_for_player fed the residue
\* of such a run meets the same questions under the same budgets and never
\* fails split's precondition or an assertion inside split; and a question
\* whose info_amount exceeds the budget makes combine (encoder) or split
\* (decoder) abort.
C14_NoAbortWithinBudget ==
    /\ \A i \in CodecCalls :
        LET e == trail[i] IN
        (e.op = "encode" /\ e.player # e.agent /\ ULe(1, e.arg) /\ OverBudget(e) = {})
            => e.fail = "ok"
    /\ Decoded =>
          (OverBudget(trail[1]) = {} =>
              /\ OverBudget(trail[2]) = {}
              /\ trail[2].fail \notin SplitAborts)
    /\ OverBudgetAborts

\* three questions asked and decoded within the budget of a ceiling of 6
C14_Witness ==
    /\ Decoded
    /\ trail[1].arg = 6 /\ Len(trail[1].log) = 3 /\ OverBudget(trail[1]) = {}
    /\ Len(trail[2].log) = 3 /\ trail[2].fail = "ok"
    /\ \A i \in 1..3 : info_amount(trail[1].log[i].question) >= 2

\* the questions of a run whose callback returned, handing a budget back
Returned(e) ==
    IF e.fail \in {"ok", "assert:143", "assert:58", "assert:174"}
    THEN 1..Len(e.log) ELSE 1..(Len(e.log) - 1)
Informative(e, S) == { i \in S : ULe(2, info_amount(e.log[i].question)) }

\* the budget handed back never increases, never drops below 1 and strictly
\* decreases after a question of two or more answers
BudgetShrinks ==
    \A n \in CodecCalls :
        LET e == trail[n] IN
        \A i \in Returned(e) :
            /\ ULe(e.log[i].budget, BudgetBefore(e, i))
            /\ ULe(1, e.log[i].budget)
            /\ i \in Informative(e, Returned(e)) => ULt(e.log[i].budget, BudgetBefore(e, i))

\* C15 as claimed: the budget shrinks as above, and a run with ceiling c
\* contains fewer than c questions of info_amount >= 2.
C15_FewerThanCeilingQuestions ==
    /\ BudgetShrinks
    /\ \A n \in CodecCalls :
          (trail[n].op = "encode" => trail[n].player # trail[n].agent) =>
              Cardinality(Informative(trail[n], 1..Len(trail[n].log))) < trail[n].arg

\* C15 (amended): across the questions of one get_hat_info_for_player or
\* update_from_hat_info_for_player run the budget handed back never increases,
\* never drops below 1 and strictly decreases after every question with
\* info_amount >= 2; hence a run with ceiling c >= 1 contains fewer than c
\* questions of info_amount >= 2 whose callback returns, and a run with
\* ceiling 0 none; a strategy that stops asking once the budget is 1 and only
\* asks questions of two or more answers asks fewer than c questions.
C15_BudgetShrinks ==
    /\ BudgetShrinks
    /\ \A n \in CodecCalls :
        LET e == trail[n]
            answered == Cardinality(Informative(e, Returned(e)))
        IN  /\ ULe(1, e.arg) => answered < e.arg
            /\ e.arg = 0 => answered = 0
            /\ (strategy \in {"greedy", "pairs"} /\ ULe(1, e.arg)) => Len(e.log) < e.arg

\* budgets 3, 2, 1 after three two-answer questions under a ceiling of 5,
\* on the encoder's side and on the decoder's
C15_Witness ==
    /\ Decoded
    /\ strategy = "pairs"
    /\ trail[1].arg = 5 /\ Len(trail[1].log) = 3
    /\ trail[1].log[1].budget = 3 /\ trail[1].log[2].budget = 2 /\ trail[1].log[3].budget = 1
    /\ Len(trail[2].log) = 3 /\ trail[2].log[3].budget = 1

\* the quotients floor(x / s) of the x in [0, M) that leave the rest r modulo s
Quotients(M, s, r) == { x \div s : x \in { y \in 0..(M - 1) : y % s = r } }

\* C16: split leaves the tightest remainder.  For a residue (M, value) with
\* value < M and a split point 1 <= s <= M, split(s) returns (s, value mod s)
\* and leaves the value floor(value / s) under the modulus
\* floor((M - (value mod s) - 1) / s) + 1, which is the number of distinct
\* quotients floor(x / s) over the x in [0, M) with x mod s = value mod s: the
\* remainder's value is below its modulus, the quotients are exactly the
\* numbers below the modulus, and so no smaller modulus holds them all.
C16_SplitTightestRemainder ==
    \A i \in Entries :
        LET e == trail[i]
            M == e.self.modulus
            s == e.arg
            r == e.self.value % s
        IN  (e.op = "split" /\ IsValid(e.self) /\ ULe(1, s) /\ ULe(s, M)) =>
                /\ e.fail = "ok"
                /\ e.ret = Residue(s, r)
                /\ e.after.value = e.self.value \div s
                /\ e.after.modulus = ((M - r - 1) \div s) + 1
                /\ e.after.modulus = Cardinality(Quotients(M, s, r))
                /\ Quotients(M, s, r) = 0..(e.after.modulus - 1)
                /\ e.after.value \in Quotients(M, s, r)
                /\ ULt(e.after.value, e.after.modulus)

\* (3, 2) split at 2: the piece (2, 0) and the remainder (2, 1), the quotients
\* of 0 and 2 being 0 and 1
C16_Witness ==
    /\ mode = "algebra"
    /\ Len(trail) >= 1
    /\ trail[Len(trail)].op = "split" /\ trail[Len(trail)].self = Residue(3, 2)
    /\ trail[Len(trail)].arg = 2
    /\ trail[Len(trail)].ret = Residue(2, 0) /\ trail[Len(trail)].after = Residue(2, 1)
    /\ reg.a = Residue(2, 1) /\ reg.b = Residue(2, 0)

\* the runs of get_hat_info_for_player whose questions all kept to the budget
BudgetedRuns ==
    { n \in CodecCalls : /\ trail[n].op = "encode" /\ trail[n].player # trail[n].agent
                         /\ OverBudget(trail[n]) = {} }

Orders(players) ==
    { order \in [1..Len(players) -> { players[k] : k \in 1..Len(players) }] :
        \A j, k \in 1..Len(players) : order[j] = order[k] => j = k }

\* C18: in get_hat_sum and update_from_hat_sum every player's residue and new
\* belief state are those get_hat_info_for_player computes against the
\* snapshot from before the call with the whole ceiling as budget, whatever
\* came before the player in the iteration; so the sum returned, the leftover
\* and the snapshot stored are the same for every order of iteration over the
\* other players, and a call that aborts in one order aborts in every order.
C18_OrderIndependent ==
    \A i \in ActorCalls :
        LET e == trail[i]
            view == CallView(e)
            players == get_other_players(view)
        IN  /\ (e.op = "get_hat_sum" /\ e.arg # 1) =>
                \A order \in Orders(players) :
                \A r \in { get_hat_sum_over(e.pre, e.arg, view, order) } :
                    /\ (r.fail = "ok") = (e.fail = "ok")
                    /\ e.fail = "ok" =>
                        /\ r.ret = e.ret /\ r.self = e.after
                        /\ \A k \in 1..Len(order) :
                           \A one \in { get_hat_info_for_player(e.pre, order[k], e.pre[order[k]],
                                                                e.arg, view) } :
                                /\ r.infos[k] = one.ret
                                /\ e.after[order[k]] = one.hand_info
            /\ (e.op = "self_update" /\ e.arg # 1 /\ e.ret # none) =>
                \A order \in Orders(players) :
                \A r \in { update_from_hat_sum_over(e.pre, e.ret, view, order) } :
                    /\ (r.fail = "ok") = (e.fail = "ok")
                    /\ e.fail = "ok" => (r.self = e.after /\ r.leftover = e.leftover)

\* a sum under the strategy that reads the snapshot: the second player is
\* asked its questions although the first player's new belief state is a
\* single hand, because the snapshot still has the belief states from before
C18_Witness ==
    /\ Playing /\ phase = "act" /\ Len(trail) = 1
    /\ strategy = "peers"
    /\ trail[1].op = "get_hat_sum" /\ trail[1].arg = 3 /\ trail[1].fail = "ok"
    /\ \E p, q \in Players \ {trail[1].agent} :
          /\ p < q
          /\ Cardinality(trail[1].pre[p]) > 1 /\ Cardinality(trail[1].after[p]) = 1
          /\ trail[1].after[q] # trail[1].pre[q]

\* the calls of get_hat_sum and update_from_hat_sum on record: those of the
\* acting player in a turn, and an update from a residue nobody sent
SumCalls ==
    IF mode \in {"protocol", "stray"} /\ phase = "act" THEN 1..Len(trail) ELSE {}

\* C19: whenever get_hat_sum or update_from_hat_sum aborts (in
\* get_hat_info_for_player for one of the players, in a subtraction, on a
\* leftover that is not 0 when the viewer is the actor, or in
\* update_from_hat_info_for_player for the viewer's own hand), nothing has been
\* stored: the snapshot of the agent equals its snapshot from before the call,
\* for every player's belief state.  An observer's update that aborts is
\* refused in the same way.
C19_AbortLeavesSnapshot ==
    /\ \A i \in SumCalls :
          LET e == trail[i] IN
          e.fail # "ok" =>
              /\ e.after = e.pre
              /\ i = Len(trail) => pub[e.agent] = e.pre
    /\ (Playing /\ phase = "update") =>
          \A o \in Observers :
              (seen[o].n < Len(msgs) /\ msgs[seen[o].n + 1].kind = "hat_sum") =>
                  \A r \in { update_from_hat_sum(pub[o], msgs[seen[o].n + 1].info, MyView(o)) } :
                      r.fail # "ok" => r.self = pub[o]

\* an agent that is not the actor decomposes a residue nobody sent and is left
\* with a value that is not 0 (line 174), after the map had narrowed the
\* belief state of another player: its snapshot is the one from before
C19_Witness ==
    /\ mode = "stray" /\ Len(trail) = 1 /\ aborted
    /\ trail[1].op = "stray_update" /\ trail[1].fail = "assert:174"
    /\ trail[1].agent # board.player
    /\ pub[trail[1].agent] = trail[1].pre
    /\ \E q \in Players \ {trail[1].agent, board.player} :
          get_hat_info_for_player(trail[1].pre, q, trail[1].pre[q], trail[1].arg,
                                  View(trail[1].agent, board.player, hands)).hand_info
              # trail[1].pre[q]

\* C20: residue invariant.  Every residue that new or none builds has
\* modulus >= 1 and 0 <= value < modulus, and new with value >= modulus aborts;
\* every operation on valid residues whose precondition holds (combine, split
\* for the piece and for the remainder, cast_up, add, subtract) leaves every
\* residue it touches with 0 <= value < modulus.
C20_ResidueInvariant ==
    /\ IsValid(none)
    /\ \A i \in Entries :
        LET e  == trail[i]
            ir == info_remaining(e.self, e.arg)
        IN  /\ e.op = "new" =>
                /\ e.fail = "ok" => IsValid(e.ret)
                /\ ~ULt(e.num, e.arg) => e.fail = "assert:11"
            /\ (IsCombine(e) /\ IsValid(e.self) /\ IsValid(e.other)
                    /\ ir.fail = "ok" /\ ULe(e.other.modulus, ir.ret))
                => IsValid(e.after)
            /\ (e.op = "split" /\ IsValid(e.self) /\ ULe(e.arg, e.self.modulus))
                => /\ IsValid(e.after)
                   /\ e.fail = "ok" => IsValid(e.ret)
            /\ (e.op = "cast_up" /\ IsValid(e.self) /\ ULe(e.self.modulus, e.arg))
                => IsValid(e.after)
            /\ (e.op \in {"add", "subtract"} /\ IsValid(e.self) /\ IsValid(e.other)
                    /\ e.self.modulus = e.other.modulus)
                => IsValid(e.after)

====
